---- MODULE Spec2Model ----
(***************************************************************************)
(* Model of sapphire's ground-particle shower simulation                   *)
(* (sapphire/simulations/groundparticles.py) on a cluster of stations      *)
(* (sapphire/clusters.py), and of the preparation of a CORSIKA batch job   *)
(* (sapphire/corsika/qsub.py).                                             *)
(*                                                                         *)
(* Specifications: Spec (the shower generator of a run), SpecDetector (the  *)
(* detection strategies on any dataset and cluster pose), SpecStation      *)
(* (trigger and timestamp on any observables), SpecLife (construction,     *)
(* finish() and __del__ of one simulation object), SpecGeometry            *)
(* (clusters.py on its own) and SpecBatch (CorsikaBatch.prepare_env).      *)
(* Each leaves the others' variables alone.                                *)
(*                                                                         *)
(* Numbers.  The code computes with Python floats, and so does the model:  *)
(*   floats    (positions, times, slopes, intercepts) are IEEE-754         *)
(*             binary64 values [s, m, e] standing for s * m * 2^e, with s  *)
(*             the sign (0 for zero), m a mantissa of exactly 53 bits kept *)
(*             in limbs of 15 bits, least significant first, and e the     *)
(*             exponent; +, -, *, / and the reading of a decimal literal   *)
(*             round to the nearest value, ties to even, and '%f' prints   *)
(*             the exact value rounded to six decimals the same way.  The  *)
(*             sign of a zero is not kept: nothing in the code depends on  *)
(*             it.  Float(v, k) is the float Python reads from the literal *)
(*             v * 10^-k, e.g. Float(3535534, 7) for 0.3535534;            *)
(*   angles    are whole numbers of quarter turns (1 = pi/2); sin and cos  *)
(*             return the floats math.sin and math.cos return at the       *)
(*             float of that angle, e.g. sin(pi) = 1.2246467991473532e-16; *)
(*   ext_timestamp (a Python long of about 1e18 ns) is a pair [s, ns]      *)
(*             standing for s * 1e9 + ns, with 0 <= ns < 1e9;              *)
(*   lengths   on the side of the properties are whole numbers of 1e-7 m   *)
(*             (Metre = 10^7): Grid(x) is the float x to seven decimals.   *)
(***************************************************************************)
EXTENDS Integers, Sequences, FiniteSets, TLC

Metre == 10^7
Giga == 10^9

(***************************************************************************)
(* Bounds of the model.                                                    *)
(***************************************************************************)
\* most rows in the ground-particle dataset
MaxRows == 2
\* number of showers of a run (the simulation's N)
NShowers == 2

(***************************************************************************)
(* Helpers on sequences and whole numbers.                                 *)
(***************************************************************************)
Range(s) == {s[k] : k \in 1..Len(s)}

SeqsUpTo(S, n) == UNION {[1..m -> S] : m \in 0..n}

Abs(v) == IF v < 0 THEN -v ELSE v

Sign(v) == IF v < 0 THEN -1 ELSE IF v > 0 THEN 1 ELSE 0

(***************************************************************************)
(* Natural numbers of any size: sequences of limbs in base 2^15, least     *)
(* significant limb first, without leading zero limbs (zero is <<>>).      *)
(***************************************************************************)
Base == 2^15

\* the limbs of the whole number n >= 0
RECURSIVE Limbs(_)
Limbs(n) == IF n = 0 THEN <<>> ELSE <<n % Base>> \o Limbs(n \div Base)

\* the whole number of the limbs a, where it is below 2^31
RECURSIVE IntOf(_)
IntOf(a) == IF a = <<>> THEN 0 ELSE Head(a) + Base * IntOf(Tail(a))

\* a without its leading zero limbs
RECURSIVE Trim(_)
Trim(a) ==
    IF a # <<>> /\ a[Len(a)] = 0 THEN Trim(SubSeq(a, 1, Len(a) - 1)) ELSE a

\* the k-th limb of a, 0 beyond its length
Limb(a, k) == IF k <= Len(a) THEN a[k] ELSE 0

\* a and b of the same length compared from limb k downwards: -1, 0 or 1
RECURSIVE NatCmpFrom(_, _, _)
NatCmpFrom(a, b, k) ==
    IF k = 0 THEN 0
    ELSE IF a[k] < b[k] THEN -1
    ELSE IF a[k] > b[k] THEN 1
    ELSE NatCmpFrom(a, b, k - 1)

\* a compared with b: -1, 0 or 1
NatCmp(a, b) ==
    IF Len(a) < Len(b) THEN -1
    ELSE IF Len(a) > Len(b) THEN 1
    ELSE NatCmpFrom(a, b, Len(a))

\* the limbs of a + b from limb k on, with the carry of the limbs below
RECURSIVE AddFrom(_, _, _, _)
AddFrom(a, b, k, carry) ==
    IF k > Len(a) /\ k > Len(b)
    THEN IF carry = 0 THEN <<>> ELSE <<carry>>
    ELSE LET t == Limb(a, k) + Limb(b, k) + carry
         IN  <<t % Base>> \o AddFrom(a, b, k + 1, t \div Base)

\* a + b
NatAdd(a, b) ==
    IF a = <<>> THEN b ELSE IF b = <<>> THEN a ELSE AddFrom(a, b, 1, 0)

\* the limbs of a - b from limb k on, with the borrow of the limbs below
RECURSIVE SubFrom(_, _, _, _)
SubFrom(a, b, k, borrow) ==
    IF k > Len(a) THEN <<>>
    ELSE LET t == a[k] - Limb(b, k) - borrow
         IN  IF t < 0 THEN <<t + Base>> \o SubFrom(a, b, k + 1, 1)
             ELSE <<t>> \o SubFrom(a, b, k + 1, 0)

\* a - b, where a >= b
NatSub(a, b) == IF b = <<>> THEN a ELSE Trim(SubFrom(a, b, 1, 0))

\* the limbs of a * d from limb k on, for a single limb d
RECURSIVE MulSmallFrom(_, _, _, _)
MulSmallFrom(a, d, k, carry) ==
    IF k > Len(a) THEN IF carry = 0 THEN <<>> ELSE <<carry>>
    ELSE LET t == a[k] * d + carry
         IN  <<t % Base>> \o MulSmallFrom(a, d, k + 1, t \div Base)

\* a * d for 0 <= d <= 2^15
NatMulSmall(a, d) ==
    IF d = 0 \/ a = <<>> THEN <<>>
    ELSE IF d = 1 THEN a
    ELSE MulSmallFrom(a, d, 1, 0)

\* a * b
RECURSIVE NatMul(_, _)
NatMul(a, b) ==
    IF a = <<>> \/ b = <<>> THEN <<>>
    ELSE IF Len(b) = 1 THEN NatMulSmall(a, b[1])
    ELSE NatAdd(NatMulSmall(a, b[1]), <<0>> \o NatMul(a, Tail(b)))

\* the limbs 1..k of a divided by d, 0 < d < 2^16, where rem is what the
\* limbs above k left: quotient limbs (untrimmed) and remainder
RECURSIVE DivSmallFrom(_, _, _, _)
DivSmallFrom(a, d, k, rem) ==
    IF k = 0 THEN [q |-> <<>>, r |-> rem]
    ELSE LET t == rem * Base + a[k]
             rest == DivSmallFrom(a, d, k - 1, t % d)
         IN  [q |-> Append(rest.q, t \div d), r |-> rest.r]

\* quotient and remainder of a by the small number d
NatDivSmall(a, d) == [DivSmallFrom(a, d, Len(a), 0) EXCEPT !.q = Trim(@)]

\* the number of bits of the whole number n
RECURSIVE IntBits(_)
IntBits(n) == IF n = 0 THEN 0 ELSE 1 + IntBits(n \div 2)

\* the number of bits of a
BitLen(a) == IF a = <<>> THEN 0 ELSE 15 * (Len(a) - 1) + IntBits(a[Len(a)])

\* a * 2^n
ShiftLeft(a, n) ==
    IF a = <<>> THEN <<>>
    ELSE [k \in 1..(n \div 15) |-> 0] \o NatMulSmall(a, 2^(n % 15))

\* the quotient res.q, and whether res or the limbs low leave anything
Shifted(res, low) ==
    [q |-> res.q, sticky |-> res.r # 0 \/ \E k \in 1..Len(low) : low[k] # 0]

\* a divided by 2^n: the quotient, and whether any bit was shifted out
ShiftRight(a, n) ==
    Shifted(NatDivSmall(SubSeq(a, n \div 15 + 1, Len(a)), 2^(n % 15)),
            SubSeq(a, 1, IF n \div 15 < Len(a) THEN n \div 15 ELSE Len(a)))

\* a is odd
Odd(a) == a # <<>> /\ a[1] % 2 = 1

\* n, or n + 1 if up
NatSucc(n, up) == IF up THEN NatAdd(n, <<1>>) ELSE n

\* half of h.q rounded to the nearest whole number, ties to even, where
\* h.q is the floor of a number with more digits if h.sticky or sticky
RoundHalf(h, sticky) ==
    NatSucc(ShiftRight(h.q, 1).q,
            Odd(h.q) /\ (h.sticky \/ sticky \/ h.q[1] % 4 = 3))

\* n / 2^k rounded to the nearest whole number, ties to even; sticky says
\* that n itself is the floor of a number with more digits
RoundShift(n, k, sticky) ==
    IF k = 0 THEN n ELSE RoundHalf(ShiftRight(n, k - 1), sticky)

(***************************************************************************)
(* Python floats: IEEE-754 binary64, round to nearest, ties to even.  The  *)
(* values of the model stay far from overflow and from the subnormals.     *)
(***************************************************************************)
\* the float of sign s, 53-bit mantissa m and exponent e
Double(s, m, e) == [s |-> s, m |-> m, e |-> e]

\* 0.0
Zero == [s |-> 0, m |-> <<>>, e |-> 0]

\* the float of a mantissa m rounded to 53 bits, which the rounding may
\* have carried to 2^53
Carried(s, m, e) ==
    IF m = <<0, 0, 0, 256>> THEN Double(s, <<0, 0, 0, 128>>, e + 1)
    ELSE Double(s, m, e)

\* the float nearest to s * n * 2^e for n # 0 of 53 + k bits
Normal(s, n, e, sticky, k) ==
    IF k <= 0 THEN Double(s, ShiftLeft(n, -k), e + k)
    ELSE Carried(s, RoundShift(n, k, sticky), e + k)

\* the float nearest to s * n * 2^e (or to a number of which n * 2^e is
\* the floor, if sticky)
Nearest(s, n, e, sticky) ==
    IF n = <<>> THEN Zero ELSE Normal(s, n, e, sticky, BitLen(n) - 53)

\* the float nearest to s * res.q * 2^e, res a quotient with its sticky bit
NearestQuotient(s, res, e) == Nearest(s, res.q, e, res.sticky)

\* -x
neg(x) == [x EXCEPT !.s = -x.s]

\* abs(x)
abs(x) == [x EXCEPT !.s = Abs(x.s)]

\* x compared with y: -1, 0 or 1
cmp(x, y) ==
    LET magnitude == IF x.e < y.e THEN -1
                     ELSE IF x.e > y.e THEN 1
                     ELSE NatCmp(x.m, y.m)
    IN  IF x.s # y.s THEN (IF x.s < y.s THEN -1 ELSE 1)
        ELSE IF x.s = 0 THEN 0
        ELSE x.s * magnitude

\* x < y, x <= y, x > y, x >= y, x == y
lt(x, y) == cmp(x, y) < 0
le(x, y) == cmp(x, y) <= 0
gt(x, y) == cmp(x, y) > 0
ge(x, y) == cmp(x, y) >= 0
eq(x, y) == cmp(x, y) = 0

\* sx * nx + sy * ny for opposite signs, c being nx compared with ny:
\* sign and magnitude
Difference(sx, nx, sy, ny, c) ==
    IF c = 0 THEN [s |-> 0, n |-> <<>>]
    ELSE IF c > 0 THEN [s |-> sx, n |-> NatSub(nx, ny)]
    ELSE [s |-> sy, n |-> NatSub(ny, nx)]

\* sx * nx + sy * ny: sign and magnitude
Sum(sx, nx, sy, ny) ==
    IF sx = sy THEN [s |-> sx, n |-> NatAdd(nx, ny)]
    ELSE Difference(sx, nx, sy, ny, NatCmp(nx, ny))

\* the float nearest to v.s * v.n * 2^e
NearestSum(v, e) == Nearest(v.s, v.n, e, FALSE)

\* x + y for x and y other than 0.0, e being the lower exponent
Aligned(x, y, e) ==
    NearestSum(Sum(x.s, ShiftLeft(x.m, x.e - e),
                   y.s, ShiftLeft(y.m, y.e - e)), e)

\* x + y
add(x, y) ==
    IF x.s = 0 THEN y
    ELSE IF y.s = 0 THEN x
    ELSE IF x.e - y.e > 64 THEN x
    ELSE IF y.e - x.e > 64 THEN y
    ELSE Aligned(x, y, IF x.e < y.e THEN x.e ELSE y.e)

\* x - y
sub(x, y) == add(x, neg(y))

\* x * y
mul(x, y) ==
    IF x.s = 0 \/ y.s = 0 THEN Zero
    ELSE Nearest(x.s * y.s, NatMul(x.m, y.m), x.e + y.e, FALSE)

\* a first guess of the next limb of the quotient of r by d, from their
\* top limbs: never too small, and at most 2 too large
Estimate(r, d) ==
    LET n == Len(d)
        top == Limb(r, n + 1) * Base + Limb(r, n)
    IN  IF top \div d[n] > Base - 1 THEN Base - 1 ELSE top \div d[n]

\* the greatest digit with digit * d <= r, from the guess est
Adjusted(r, d, est) ==
    IF est = 0 \/ NatCmp(NatMulSmall(d, est), r) <= 0 THEN est
    ELSE IF NatCmp(NatMulSmall(d, est - 1), r) <= 0 THEN est - 1
    ELSE est - 2

\* the next limb of a quotient: the greatest digit with digit * d <= r,
\* where r < d * 2^15 and the top limb of d is at least 2^14
QuotientDigit(r, d) == Adjusted(r, d, Estimate(r, d))

\* the quotient limbs q with the next limb digit before them, and what
\* digit * d leaves of r
Reduced(r, q, d, digit) ==
    [q |-> <<digit>> \o q,
     r |-> IF digit = 0 THEN r ELSE NatSub(r, NatMulSmall(d, digit))]

\* one step of the long division: the limb below the limbs that gave the
\* quotient limbs high.q and left high.r
DivLimb(limb, high, d) ==
    IF high.r = <<>> /\ limb = 0 THEN [q |-> <<0>> \o high.q, r |-> <<>>]
    ELSE Reduced(<<limb>> \o high.r, high.q, d,
                 QuotientDigit(<<limb>> \o high.r, d))

\* long division of the limbs k.. of a by d: quotient limbs (untrimmed) and
\* remainder
RECURSIVE NatDivFrom(_, _, _)
NatDivFrom(a, d, k) ==
    IF k > Len(a) THEN [q |-> <<>>, r |-> <<>>]
    ELSE DivLimb(a[k], NatDivFrom(a, d, k + 1), d)

\* res, the quotient limbs and the remainder of a long division, as a
\* quotient and its sticky bit
Quotient(res) == [q |-> Trim(res.q), sticky |-> res.r # <<>>]

\* the quotient of a by d, and whether anything is left
NatDiv(a, d) == Quotient(NatDivFrom(a, d, 1))

\* x / y for y # 0 (true division): the mantissas are shifted so that the
\* quotient has 113 or 114 bits and the divisor's top limb is full
truediv(x, y) ==
    IF x.s = 0 THEN Zero
    ELSE NearestQuotient(x.s * y.s,
                         NatDiv(ShiftLeft(x.m, 67), ShiftLeft(y.m, 7)),
                         x.e - y.e - 60)

\* res, a quotient and a remainder, as a quotient and its sticky bit
Sticky(res, sticky) == [q |-> res.q, sticky |-> sticky \/ res.r # 0]

\* res1.q / 5^k, where res1 is a quotient with its remainder
DivMore(res1, k) == Sticky(NatDivSmall(res1.q, 5^k), res1.r # 0)

\* n / 5^k for k <= 12: the quotient, and whether anything is left
DivFives(n, k) ==
    IF k <= 6 THEN Sticky(NatDivSmall(n, 5^k), FALSE)
    ELSE DivMore(NatDivSmall(n, 5^6), k - 6)

\* float('n.d1...dk'): the float nearest to s * n / 10^k, for the limbs n
\* of all the digits of a literal with k decimals
Literal(s, n, k) == NearestQuotient(s, DivFives(ShiftLeft(n, 80), k), -k - 80)

\* the float of the literal v * 10^-k, for a whole number v
Float(v, k) == Literal(Sign(v), Limbs(Abs(v)), k)

\* n * 2^e rounded to the nearest whole number, ties to even
Scaled(n, e) ==
    IF e >= 0 THEN ShiftLeft(n, e) ELSE RoundShift(n, -e, FALSE)

\* the digits of '%.kf' % x without sign and point: |x| * 10^k rounded to
\* the nearest whole number, ties to even, from the exact value of x
Digits(x, k) == Scaled(NatMul(x.m, Limbs(10^k)), x.e)

\* int(x): x truncated towards zero
int(x) ==
    IF x.s = 0 THEN 0
    ELSE IF x.e >= 0 THEN x.s * IntOf(ShiftLeft(x.m, x.e))
    ELSE x.s * IntOf(ShiftRight(x.m, -x.e).q)

\* x to seven decimals, as a whole number of 1e-7
Grid(x) == x.s * IntOf(Digits(x, 7))

\* Python's min() of a non-empty list of floats
Min(s) == CHOOSE v \in Range(s) : \A w \in Range(s) : le(v, w)

\* 1.0 and 2.0
One == Double(1, <<0, 0, 0, 128>>, -52)
Two == Double(1, <<0, 0, 0, 128>>, -51)

\* the residues of math.sin and math.cos at multiples of pi / 2:
\* cos(pi/2) = 6.123233995736766e-17, sin(pi) = 1.2246467991473532e-16,
\* cos(3pi/2) = -1.8369701987210297e-16, sin(2pi) = -2.4492935982947064e-16
CosHalfPi == Double(1, <<23559, 26152, 6296, 141>>, -106)
SinPi == Double(1, <<23559, 26152, 6296, 141>>, -105)
CosThreeHalfPi == Double(-1, <<2570, 6461, 25829, 211>>, -105)
SinTwoPi == Double(-1, <<23559, 26152, 6296, 141>>, -104)

\* math.sin of the float of k quarter turns, -4 <= k <= 4 (the floats are
\* pi/2 = 1.5707963267948966, pi = 3.141592653589793, pi + pi/2 =
\* 4.71238898038469 and 2 * pi = 6.283185307179586, and their opposites)
sin(k) == CASE Abs(k) = 0 -> Zero
            [] k = 1 -> One
            [] k = -1 -> neg(One)
            [] k = 2 -> SinPi
            [] k = -2 -> neg(SinPi)
            [] k = 3 -> neg(One)
            [] k = -3 -> One
            [] k = 4 -> SinTwoPi
            [] k = -4 -> neg(SinTwoPi)

\* math.cos of the float of k quarter turns, -4 <= k <= 4
cos(k) == CASE Abs(k) = 0 -> One
            [] Abs(k) = 1 -> CosHalfPi
            [] Abs(k) = 2 -> neg(One)
            [] Abs(k) = 3 -> CosThreeHalfPi
            [] Abs(k) = 4 -> One

(***************************************************************************)
(* clusters.py: Detector, Station, BaseCluster.                            *)
(*                                                                         *)
(* The cluster is a SingleStation-like cluster of one station.  The        *)
(* station's position and angle and its detectors are fixed at             *)
(* construction (variable `station`); the cluster's pose (variable         *)
(* `cluster`) is what set_xyalpha_coordinates overwrites.                  *)
(***************************************************************************)
VARIABLES
    cluster,              \* BaseCluster._x, _y, _alpha: [x, y, alpha]
    station,              \* Station: [position, angle, detectors, gps_offset]
    groundparticles,      \* the dataset: sequence of rows [x, y, t, particle_id]
    event_header,         \* groundparticles._v_attrs['event_header']: [azimuth, ...]
    strategy,             \* the class of the simulation object
    N,                    \* self.N, the number of showers of the run
    pc,                   \* where the run is
    i,                    \* shower index of generate_shower_parameters
    core,                 \* locals x, y, alpha of the generator frame
    shower_parameters,    \* the record built for the current shower
    yielded,              \* number of records yielded so far
    detector_observables, \* list of the detectors' observables [n, t]
    matched,              \* per detector: indices of the rows the query matched (table order)
    transporttimes,       \* per detector: the delays drawn for the matched rows
    has_triggered,        \* result of simulate_trigger
    station_observables,  \* dict: key -> value
    trigger_time,         \* local trigger_time of simulate_gps
    gps_input,            \* station_observables as passed into simulate_gps
    gps_uncertainty,      \* the draw of simulate_gps_uncertainty, if any
    corsikafile,          \* the dataset handle: "absent", "open" or "closed"
    finish_calls,         \* the state of the handle at each call of finish()
    calls,                \* the geometry calls made on the cluster, in order
    posed,                \* the call that last set the cluster's pose
    datadir,              \* qsub.py: the names in DATADIR
    tempdir,              \* qsub.py: the names in TEMPDIR
    taken,                \* qsub.py: prepare_env's local taken
    batch,                \* qsub.py: the CorsikaBatch object's seed1, seed2, rundir
    jobs,                 \* qsub.py: the names of the submitted jobs still running
    batches,              \* qsub.py: the number of batches started so far
    exception             \* the exception the generator or prepare_env ended with

vars == <<cluster, station, groundparticles, event_header, strategy, N, pc, i,
          core,
          shower_parameters, yielded, detector_observables, matched,
          transporttimes, has_triggered, station_observables, trigger_time,
          gps_input, gps_uncertainty, corsikafile, finish_calls, calls,
          posed, datadir, tempdir, taken, batch, jobs, batches, exception>>

\* the variables of the dataset handle, of the geometry calls, and all the
\* others but pc
handleVars == <<corsikafile, finish_calls>>
geometryVars == <<calls, posed>>
batchVars == <<datadir, tempdir, taken, batch, jobs, batches, exception>>
runVars == <<cluster, station, groundparticles, event_header, strategy, N, i,
             core, shower_parameters, yielded, detector_observables, matched,
             transporttimes, has_triggered, station_observables, trigger_time,
             gps_input, gps_uncertainty, geometryVars, batchVars>>


\* Detector.__detector_size = (.5, 1.)
detector_size == <<Float(5, 1), Float(1, 0)>>

\* BaseCluster.get_xyalpha_coordinates
Cluster_get_xyalpha_coordinates(c) == <<c.x, c.y, c.alpha>>

\* set_xyalpha_coordinates moving the cluster by (x, y, alpha) from where
\* it is
set_xyalpha_coordinates_relative(x, y, alpha) ==
    [x |-> add(cluster.x, x), y |-> add(cluster.y, y),
     alpha |-> cluster.alpha + alpha]

\* BaseCluster.set_xyalpha_coordinates(x, y, alpha)
set_xyalpha_coordinates(x, y, alpha) == [x |-> x, y |-> y, alpha |-> alpha]

\* the point (x, y) of a frame placed at xyalpha = (X, Y, alpha), in the
\* coordinates of the frame around it: the rotation and the shift that
\* Station.get_xyalpha_coordinates, Detector.get_xy_coordinates and
\* Detector.get_corners each write out
Placed(xyalpha, x, y) ==
    LET X == xyalpha[1]
        Y == xyalpha[2]
        sina == sin(xyalpha[3])
        cosa == cos(xyalpha[3])
    IN  <<add(X, sub(mul(x, cosa), mul(y, sina))),
          add(Y, add(mul(x, sina), mul(y, cosa)))>>

\* Station.get_xyalpha_coordinates returning the cluster's angle alone
Station_get_xyalpha_without_own_angle(c, st) ==
    Placed(Cluster_get_xyalpha_coordinates(c),
           st.position[1], st.position[2]) \o <<c.alpha>>

\* Station.get_xyalpha_coordinates
Station_get_xyalpha_coordinates(c, st) ==
    Placed(Cluster_get_xyalpha_coordinates(c),
           st.position[1], st.position[2]) \o <<c.alpha + st.angle>>

\* Detector.get_xy_coordinates
get_xy_coordinates(c, st, det) ==
    Placed(Station_get_xyalpha_coordinates(c, st), det.x, det.y)

\* BaseCluster.set_rphialpha_coordinates(r, phi, alpha)
set_rphialpha_coordinates(r, phi, alpha) ==
    [x |-> mul(r, cos(phi)), y |-> mul(r, sin(phi)), alpha |-> alpha]

\* Detector.get_corners raises Exception("Unknown detector orientation")
get_corners_raises(det) == det.orientation \notin {"UD", "LR"}

\* the corners [(x - dx, y - dy), (x + dx, y - dy), (x + dx, y + dy),
\* (x - dx, y + dy)] of a detector in the frame of its station
Rectangle(x, y, dx, dy) ==
    << <<sub(x, dx), sub(y, dy)>>, <<add(x, dx), sub(y, dy)>>,
       <<add(x, dx), add(y, dy)>>, <<sub(x, dx), add(y, dy)>> >>

\* the corners of get_corners before the rotation, dx and dy being half
\* the detector's size: an 'LR' detector lies on its side
Corners(det, dx, dy) ==
    IF det.orientation = "UD" THEN Rectangle(det.x, det.y, dx, dy)
    ELSE Rectangle(det.x, det.y, dy, dx)

\* the corners placed in the frame of the station at xyalpha
PlacedCorners(xyalpha, corners) ==
    [k \in 1..4 |-> Placed(xyalpha, corners[k][1], corners[k][2])]

\* Detector.get_corners, where it does not raise: the orientation is 'UD'
\* or 'LR'
get_corners(c, st, det) ==
    PlacedCorners(Station_get_xyalpha_coordinates(c, st),
                  Corners(det, truediv(detector_size[1], Two),
                               truediv(detector_size[2], Two)))

(***************************************************************************)
(* groundparticles.py: the three detection strategies.                     *)
(***************************************************************************)
\* '%f' % x, as the query reads it back: the float x printed with six
\* decimals and parsed again
FormatF(x) == Literal(x.s, Digits(x, 6), 6)

\* the indices of the rows of a table, in the order table.where visits them
Indices(rows) == [k \in 1..Len(rows) |-> k]

\* '(particle_id >= 2) & (particle_id <= 6)'
ParticleIdMatches(row) == (row.particle_id >= 2) /\ (row.particle_id <= 6)

\* detector_boundary of GroundParticlesSimulation.simulate_detector_response
detector_boundary == Float(3535534, 7)

\* detector_boundary of DetectorBoundarySimulation.simulate_detector_response
detector_boundary_Boundary == Float(6, 1)

\* detector_boundary of DetectorSignalSimulation.simulate_detector_response
detector_boundary_Signal == Float(3535534, 7)

\* the four numbers in the box part of the three queries, in the order the
\* code formats them: (x - b, x + b, y - b, x + b)
BoxQuery(xy, b) ==
    LET x == xy[1]
        y == xy[2]
    IN  <<FormatF(sub(x, b)), FormatF(add(x, b)),
          FormatF(sub(y, b)), FormatF(add(x, b))>>

\* '(x >= %f) & (x <= %f) & (y >= %f) & (y <= %f)' on a row
BoxMatches(box, row) ==
    /\ ge(row.x, box[1])
    /\ le(row.x, box[2])
    /\ ge(row.y, box[3])
    /\ le(row.y, box[4])

\* the query of GroundParticlesSimulation.simulate_detector_response: its
\* numbers
SquareQuery(c, st, det) ==
    [box |-> BoxQuery(get_xy_coordinates(c, st, det), detector_boundary)]

\* the square query on a row
SquareMatches(query, row) ==
    /\ BoxMatches(query.box, row)
    /\ ParticleIdMatches(row)

\* the end of get_line_boundary_eqs: b1 and b2 swapped if b1 > b2
Ordered(b1, line, b2) ==
    IF gt(b1, b2) THEN <<b2, line, b1>> ELSE <<b1, line, b2>>

\* get_line_boundary_eqs on an edge of slope a: the intercepts of the
\* lines through p0 and p2, and "y - %f * x" % a
Sloped(p0, p2, a) ==
    Ordered(sub(p0[2], mul(a, p0[1])),
            [vertical |-> FALSE, a |-> FormatF(a)],
            sub(p2[2], mul(a, p2[1])))

\* DetectorBoundarySimulation.get_line_boundary_eqs: <<b1, line, b2>> with
\* b1 <= b2, where line is "x" (vertical, if x0 == x1) or "y - %f * x" % a,
\* kept as the slope the query reads back
get_line_boundary_eqs(p0, p1, p2) ==
    IF eq(p0[1], p1[1])
    THEN Ordered(p0[1], [vertical |-> TRUE, a |-> Zero], p2[1])
    ELSE Sloped(p0, p2, truediv(sub(p1[2], p0[2]), sub(p1[1], p0[1])))

\* the value of the query's line expression, "x" or "y - a * x", on a row
LineValue(line, row) ==
    IF line.vertical THEN row.x ELSE sub(row.y, mul(line.a, row.x))

\* the numbers, lines and condition variables of the polygon query
PolygonQuery(box, eqs1, eqs2) ==
    [box |-> box,
     b11 |-> eqs1[1], line1 |-> eqs1[2], b12 |-> eqs1[3],
     b21 |-> eqs2[1], line2 |-> eqs2[2], b22 |-> eqs2[3]]

\* the polygon query of a detector centred at xy with corners cs
QueryAround(xy, cs) ==
    PolygonQuery(BoxQuery(xy, detector_boundary_Boundary),
                 get_line_boundary_eqs(cs[1], cs[2], cs[3]),
                 get_line_boundary_eqs(cs[2], cs[3], cs[4]))

\* the query of DetectorBoundarySimulation.simulate_detector_response: its
\* numbers, lines and condition variables
BoundaryQuery(c, st, det) ==
    QueryAround(get_xy_coordinates(c, st, det), get_corners(c, st, det))

\* the polygon query on a row
BoundaryMatches(query, row) ==
    /\ BoxMatches(query.box, row)
    /\ lt(query.b11, LineValue(query.line1, row))
    /\ lt(LineValue(query.line1, row), query.b12)
    /\ lt(query.b21, LineValue(query.line2, row))
    /\ lt(LineValue(query.line2, row), query.b22)
    /\ ParticleIdMatches(row)

\* the query of DetectorSignalSimulation.simulate_detector_response: its
\* numbers
SignalQuery(c, st, det) ==
    [box |-> BoxQuery(get_xy_coordinates(c, st, det),
                      detector_boundary_Signal)]

\* the signal query on a row
SignalMatches(query, row) ==
    /\ BoxMatches(query.box, row)
    /\ ParticleIdMatches(row)

\* table.where(query): the rows each strategy selects for a detector
SquareSelected(c, st, det, rows) ==
    LET query == SquareQuery(c, st, det)
        hits == [k \in 1..Len(rows) |-> SquareMatches(query, rows[k])]
    IN  SelectSeq(Indices(rows), LAMBDA k : hits[k])

BoundarySelected(c, st, det, rows) ==
    LET query == BoundaryQuery(c, st, det)
        hits == [k \in 1..Len(rows) |-> BoundaryMatches(query, rows[k])]
    IN  SelectSeq(Indices(rows), LAMBDA k : hits[k])

SignalSelected(c, st, det, rows) ==
    LET query == SignalQuery(c, st, det)
        hits == [k \in 1..Len(rows) |-> SignalMatches(query, rows[k])]
    IN  SelectSeq(Indices(rows), LAMBDA k : hits[k])

\* the sentinel arrival time -999 of a detector without particles
NoTime == Float(-999, 0)

\* the post-selection taking the raw arrival times, without the delays
ObservablesWithoutDelays(rows, hit, tt, n) ==
    IF Len(hit) > 0
    THEN LET times == [k \in 1..Len(hit) |-> rows[hit[k]].t]
         IN  [n |-> n, t |-> Min(times)]
    ELSE [n |-> 0, t |-> NoTime]

\* the post-selection part of simulate_detector_response: hit is the list
\* of matched rows, tt the delays of simulate_signal_transport_time, n the
\* value reported when rows matched
Observables(rows, hit, tt, n) ==
    IF Len(hit) > 0
    THEN LET times == [k \in 1..Len(hit) |-> add(rows[hit[k]].t, tt[k])]
         IN  [n |-> n, t |-> Min(times)]
    ELSE [n |-> 0, t |-> NoTime]

(***************************************************************************)
(* groundparticles.py: trigger and GPS timestamp of a station.             *)
(***************************************************************************)
RECURSIVE sum(_)
\* Python's sum() of a list
sum(s) == IF Len(s) = 0 THEN 0 ELSE Head(s) + sum(Tail(s))

\* simulate_trigger asking for more than two detectors
simulate_trigger_more_than_two(observables) ==
    LET hit == SelectSeq(observables, LAMBDA o : o.n > 0)
        detectors_hit == [k \in 1..Len(hit) |-> 1]
    IN  sum(detectors_hit) > 2

\* GroundParticlesSimulation.simulate_trigger
simulate_trigger(observables) ==
    LET hit == SelectSeq(observables, LAMBDA o : o.n > 0)
        \* a list of True, each counting as 1 in sum()
        detectors_hit == [k \in 1..Len(hit) |-> 1]
    IN  sum(detectors_hit) >= 2

\* the keys 'n%d' % id and 't%d' % id for id in range(1, 5)
NKey == <<"n1", "n2", "n3", "n4">>
TKey == <<"t1", "t2", "t3", "t4">>

\* process_detector_observables of the base simulation: the detectors'
\* observables keyed n{idx}, t{idx} by 1-based detector index
process_detector_observables(observables) ==
    LET ids == 1..Len(observables)
        keys == {NKey[d] : d \in ids} \cup {TKey[d] : d \in ids}
    IN  [key \in keys |->
            LET d == CHOOSE d \in ids : key \in {NKey[d], TKey[d]}
            IN  IF key = NKey[d] THEN observables[d].n ELSE observables[d].t]

\* dict.get(key, default)
Get(dict, key, default) == IF key \in DOMAIN dict THEN dict[key] ELSE default

\* dict.update(other)
Update(dict, other) ==
    [key \in DOMAIN dict \cup DOMAIN other |->
        IF key \in DOMAIN other THEN other[key] ELSE dict[key]]

\* Python's sorted() of a list of floats
sorted(s) == SortSeq(s, LAMBDA v, w : lt(v, w))

\* ext_timestamp += k on a long kept as [s, ns]
AddLong(ext, k) ==
    [s |-> ext.s + ((ext.ns + k) \div Giga), ns |-> (ext.ns + k) % Giga]

\* the arrival times simulate_gps collects: t{id} for id in 1..4 whose
\* n{id} (default -1) is > 0
arrival_times(obs) ==
    LET ids == SelectSeq(<<1, 2, 3, 4>>, LAMBDA id : Get(obs, NKey[id], -1) > 0)
    IN  [k \in 1..Len(ids) |-> obs[TKey[ids[k]]]]

\* the trigger time taken to be the first arrival time
gps_trigger_time_first(times) == sorted(times)[1]

\* the trigger time simulate_gps takes from two or more arrival times
gps_trigger_time(times) == sorted(times)[2]

\* simulate_gps updating the observables outside its if
simulate_gps_unconditional(obs, shower, gps_offset, uncertainty) ==
    LET times == arrival_times(obs)
        ext == IF Len(times) > 1
               THEN AddLong(shower.ext_timestamp,
                            int(add(add(gps_trigger_time(times), gps_offset),
                                    uncertainty)))
               ELSE shower.ext_timestamp
    IN  Update(obs, [ext_timestamp |-> ext, timestamp |-> ext.s,
                     nanoseconds |-> ext.ns])

\* GroundParticlesSimulation.simulate_gps; uncertainty is the draw of
\* simulate_gps_uncertainty.  The sum is a sum of floats, taken from left
\* to right, and int() truncates it.  timestamp and nanoseconds are the
\* quotient and the remainder of the long by long(1e9): the division of two
\* longs is the whole division (the module does not import division from
\* __future__).
simulate_gps(obs, shower, gps_offset, uncertainty) ==
    LET times == arrival_times(obs)
    IN  IF Len(times) > 1
        THEN LET ext == AddLong(shower.ext_timestamp,
                                int(add(add(gps_trigger_time(times),
                                            gps_offset), uncertainty)))
                 gps_timestamp == [ext_timestamp |-> ext,
                                   timestamp |-> ext.s,
                                   nanoseconds |-> ext.ns]
             IN  Update(obs, gps_timestamp)
        ELSE obs

(***************************************************************************)
(* groundparticles.py: the shower generator.                               *)
(***************************************************************************)
\* _prepare_cluster_for_shower, lines 118-119: the core position rotated by
\* -alpha around the centre of the cluster, (xp, yp)
rotated_core(x, y, alpha) ==
    <<sub(mul(x, cos(-alpha)), mul(y, sin(-alpha))),
      add(mul(x, sin(-alpha)), mul(y, cos(-alpha)))>>

\* GroundParticlesSimulation._prepare_cluster_for_shower on the cluster c:
\* the cluster afterwards and the exception the call ends with.  After xp
\* and yp (lines 118-119) line 121 calls self.cluster.set_coordinates, a
\* method none of the cluster classes of clusters.py has (BaseCluster has
\* set_xyalpha_coordinates and set_rphialpha_coordinates; SimpleCluster
\* and SingleStation add none): the attribute lookup raises before the
\* arguments -xp, -yp, 0, -alpha are used, and the pose stays as it was.
prepare_cluster_for_shower(c, x, y, alpha) ==
    [cluster |-> c, exception |-> "AttributeError"]

\* the azimuth of the record with the wrap at >= pi instead of > pi
shower_azimuth_wrapping_pi(alpha, azimuth) ==
    LET a == alpha + azimuth
    IN  IF a >= 2 THEN a - 4
        ELSE IF a <= -2 THEN a + 4
        ELSE a

\* the azimuth put in the record: alpha + event_header.azimuth made to fit
\* in (-pi, pi] (pi is 2 quarter turns)
shower_azimuth(alpha, azimuth) ==
    LET a == alpha + azimuth
    IN  IF a > 2 THEN a - 4
        ELSE IF a <= -2 THEN a + 4
        ELSE a

(***************************************************************************)
(* Inputs: the small sets the model draws from.                            *)
(***************************************************************************)
Strategies == {"GroundParticlesSimulation", "DetectorBoundarySimulation",
               "DetectorSignalSimulation"}

\* a station of two detectors, one of each orientation
PairDetectors ==
    << [x |-> Zero, y |-> Zero, orientation |-> "UD"],
       [x |-> One, y |-> Zero, orientation |-> "LR"] >>

\* math.sqrt(3) = 1.7320508075688772
sqrt3 == Double(1, <<19626, 20656, 23019, 221>>, -52)

\* the four detectors of SingleStation (station_size = 10): a = 5.0,
\* b = a / 3 * sqrt(3) = 2.8867513459481287 and 2 * b = 5.773502691896257
SingleStationDetectors ==
    LET a == truediv(Float(10, 0), Two)
        b == mul(truediv(a, Float(3, 0)), sqrt3)
    IN  << [x |-> Zero, y |-> mul(Two, b), orientation |-> "UD"],
           [x |-> Zero, y |-> Zero, orientation |-> "UD"],
           [x |-> neg(a), y |-> neg(b), orientation |-> "LR"],
           [x |-> a, y |-> neg(b), orientation |-> "LR"] >>

\* position and angle of the station in the cluster
StationPlacements == {[position |-> <<Zero, Zero>>, angle |-> 0],
                      [position |-> <<One, Zero>>, angle |-> 1]}

\* station.gps_offset, drawn once by simulate_station_offset: -100.6, 12.7
GpsOffsets == {Float(-1006, 1), Float(127, 1)}

\* draws of simulate_gps_uncertainty: -0.8, 0.0, 0.6
GpsUncertainties == {Float(-8, 1), Zero, Float(6, 1)}

\* draws of simulate_signal_transport_time: 0.5, 3.0
TransportTimes == {Float(5, 1), Float(3, 0)}

\* values of simulate_detector_mips for a non-empty list of momenta
Mips == {1, 3}

\* max_core_distance
R == One

\* draws of r = sqrt(uniform(0, R ** 2)), phi and alpha = uniform(-pi, pi);
\* uniform can return its upper limit through floating-point rounding
Rs == {Zero, R}
Phis == {0, 1}
Alphas == -2..2

\* event_header.azimuth of the dataset: -pi or pi
Azimuths == {-2, 2}

\* positions of dataset rows: the origin; 0.3 m along x; 0.45 m along y;
\* 0.25 m along x, on an edge of a detector that stands upright at the
\* origin; and 1 m to the left of the origin
Points == {<<Zero, Zero>>, <<Float(3, 1), Zero>>, <<Zero, Float(45, 2)>>,
           <<Float(25, 2), Zero>>, <<Float(-1, 0), Zero>>}

Row(p, t, id) == [x |-> p[1], y |-> p[2], t |-> t, particle_id |-> id]

\* the rows a dataset is made of: an electron arriving at 3.0 at every
\* position, and at the origin a later electron (5.0) and particles of
\* ids 4 and 7
Rows == {Row(p, Float(3, 0), 2) : p \in Points}
        \cup {Row(<<Zero, Zero>>, Float(5, 0), 2),
              Row(<<Zero, Zero>>, Float(3, 0), 4),
              Row(<<Zero, Zero>>, Float(3, 0), 7)}

Datasets == SeqsUpTo(Rows, MaxRows)

\* the dataset of a whole run: electrons at the origin
RunDatasets == SeqsUpTo({Row(<<Zero, Zero>>, Float(3, 0), 2)}, MaxRows)

\* observables a detector can report: nothing, or n particles first seen at
\* t = 0.1, 3.0, 5.0 or 5.5
DetectorObservables ==
    {[n |-> 0, t |-> NoTime]}
    \cup {[n |-> 1, t |-> t] :
             t \in {Float(1, 1), Float(3, 0), Float(5, 0), Float(55, 1)}}
    \cup {[n |-> 2, t |-> Float(3, 0)]}

None == <<>>

(***************************************************************************)
(* The run: a constructed simulation object and its shower generator,      *)
(* generate_shower_parameters.  The first shower's _prepare_cluster_for_-  *)
(* shower raises, so a run of one shower or more never reaches the         *)
(* station's response: the detectors, the trigger and the timestamp are    *)
(* specifications of their own, on simulation objects whose caller has     *)
(* set the pose of the cluster.                                            *)
(***************************************************************************)
\* no call has ended with an exception
NoException == "none"

\* the state of a newly built simulation object: __init__ opens the
\* dataset and draws the station's gps_offset; the number of showers n is
\* an argument of the constructor
Constructed(cls, n, placement, detectors, gps_offset, rows, azimuth) ==
    /\ strategy = cls
    /\ N = n
    /\ station = [position |-> placement.position, angle |-> placement.angle,
                  detectors |-> detectors, gps_offset |-> gps_offset]
    /\ groundparticles = rows
    /\ event_header = [azimuth |-> azimuth]

\* no CorsikaBatch exists
NoBatch ==
    /\ datadir = {}
    /\ tempdir = {}
    /\ taken = None
    /\ batch = None
    /\ jobs = {}
    /\ batches = 0
    /\ exception = NoException

\* __init__ has opened the dataset and finish() has not been called
Opened ==
    /\ corsikafile = "open"
    /\ finish_calls = <<>>

\* no geometry call has been logged and no CORSIKA batch is being prepared
NoCalls ==
    /\ calls = <<>>
    /\ posed = None
    /\ NoBatch

\* no shower has been generated yet
NoShower ==
    /\ i = 0
    /\ yielded = 0
    /\ core = None
    /\ shower_parameters = None

\* nothing has been simulated for the current shower yet
NoResponse ==
    /\ detector_observables = <<>>
    /\ matched = <<>>
    /\ transporttimes = <<>>
    /\ has_triggered = None
    /\ station_observables = None
    /\ trigger_time = None
    /\ gps_input = None
    /\ gps_uncertainty = None

\* the record of shower index k thrown at (x, y) with rotation alpha
ShowerParameters(k, x, y, alpha) ==
    [ext_timestamp |-> [s |-> Giga + k, ns |-> 0],
     core_pos |-> <<x, y>>,
     azimuth |-> shower_azimuth(alpha, event_header.azimuth)]

\* BaseCluster.__init__(position=(0., 0.), angle=0.)
BaseCluster == [x |-> Zero, y |-> Zero, alpha |-> 0]

Init ==
    /\ \E cls \in Strategies, n \in 0..NShowers,
          placement \in StationPlacements, gps_offset \in GpsOffsets,
          rows \in RunDatasets, azimuth \in Azimuths :
            Constructed(cls, n, placement, PairDetectors, gps_offset, rows,
                        azimuth)
    /\ cluster = BaseCluster
    /\ NoShower
    /\ NoResponse
    /\ pc = "generate"
    /\ Opened
    /\ NoCalls

\* next() on generate_shower_parameters with showers left: one iteration of
\* the loop, from the draws (lines 88-90) over the record (lines 101-104)
\* to _prepare_cluster_for_shower (line 105) and, if that returns, the
\* yield (line 107).  When the call raises, the generator is finished
\* without having yielded and next() ends with the exception; core and
\* shower_parameters keep the locals the frame had at that moment.
GenerateShower ==
    /\ pc = "generate"
    /\ yielded < N
    /\ \E r \in Rs, phi \in Phis, alpha \in Alphas :
        \E x \in {mul(r, cos(phi))}, y \in {mul(r, sin(phi))} :
        \E prepared \in {prepare_cluster_for_shower(cluster, x, y, alpha)} :
            /\ core' = [x |-> x, y |-> y, alpha |-> alpha]
            /\ shower_parameters' = ShowerParameters(yielded, x, y, alpha)
            /\ cluster' = prepared.cluster
            /\ exception' = prepared.exception
            /\ yielded' = IF prepared.exception = NoException
                          THEN yielded + 1 ELSE yielded
            /\ pc' = IF prepared.exception = NoException
                     THEN "yielded" ELSE "raised"
    /\ i' = yielded
    /\ UNCHANGED <<station, groundparticles, event_header, strategy, N,
                   detector_observables, matched, transporttimes,
                   has_triggered, station_observables, trigger_time,
                   gps_input, gps_uncertainty>>
    /\ UNCHANGED <<handleVars, geometryVars, datadir, tempdir, taken, batch,
                   jobs, batches>>

\* next() on the generator after the last shower: the loop over range(N)
\* ends
EndOfShowers ==
    /\ pc = "generate"
    /\ yielded >= N
    /\ pc' = "done"
    /\ UNCHANGED <<cluster, station, groundparticles, event_header, strategy,
                   N, i, core, shower_parameters, yielded,
                   detector_observables, matched, transporttimes,
                   has_triggered, station_observables, trigger_time,
                   gps_input, gps_uncertainty>>
    /\ UNCHANGED <<handleVars, geometryVars, batchVars>>

Next ==
    \/ GenerateShower
    \/ EndOfShowers

Spec == Init /\ [][Next]_vars

(***************************************************************************)
(* The station's response to a shower: simulate_detector_response for each *)
(* detector, simulate_trigger, process_detector_observables and            *)
(* simulate_gps, in the order the simulation calls them.                   *)
(***************************************************************************)
\* the detector whose response is simulated next
NextDetector == Len(detector_observables) + 1

\* what a simulate_detector_response leaves behind: the observables of
\* detector NextDetector, from the rows hit, the delays tt and the value n
DetectorDone(hit, tt, n) ==
    /\ detector_observables' =
            Append(detector_observables, Observables(groundparticles, hit, tt, n))
    /\ matched' = Append(matched, hit)
    /\ transporttimes' = Append(transporttimes, tt)
    /\ pc' = IF NextDetector = Len(station.detectors)
             THEN "trigger" ELSE "detectors"
    /\ UNCHANGED <<cluster, station, groundparticles, event_header, strategy, N,
                   i, core, shower_parameters, yielded, has_triggered,
                   station_observables, trigger_time, gps_input,
                   gps_uncertainty>>
    /\ UNCHANGED <<handleVars, geometryVars, batchVars>>

\* GroundParticlesSimulation.simulate_detector_response: hit is the one
\* result of table.where(query)
SimulateDetectorResponse ==
    /\ pc = "detectors"
    /\ strategy = "GroundParticlesSimulation"
    /\ \E hit \in {SquareSelected(cluster, station,
                        station.detectors[NextDetector], groundparticles)} :
       \E tt \in [1..Len(hit) -> TransportTimes] :
           DetectorDone(hit, tt, Len(hit))

\* DetectorBoundarySimulation.simulate_detector_response
SimulateDetectorResponseBoundary ==
    /\ pc = "detectors"
    /\ strategy = "DetectorBoundarySimulation"
    /\ \E hit \in {BoundarySelected(cluster, station,
                        station.detectors[NextDetector], groundparticles)} :
       \E tt \in [1..Len(hit) -> TransportTimes] :
           DetectorDone(hit, tt, Len(hit))

\* DetectorSignalSimulation.simulate_detector_response
SimulateDetectorResponseSignal ==
    /\ pc = "detectors"
    /\ strategy = "DetectorSignalSimulation"
    /\ \E hit \in {SignalSelected(cluster, station,
                        station.detectors[NextDetector], groundparticles)} :
       \E tt \in [1..Len(hit) -> TransportTimes], mips \in Mips :
           DetectorDone(hit, tt, mips)

\* simulate_trigger on the detectors' observables
SimulateTrigger ==
    /\ pc = "trigger"
    /\ has_triggered' = simulate_trigger(detector_observables)
    /\ pc' = "process"
    /\ UNCHANGED <<cluster, station, groundparticles, event_header, strategy, N,
                   i, core, shower_parameters, yielded, detector_observables,
                   matched, transporttimes, station_observables,
                   trigger_time, gps_input,
                   gps_uncertainty>>
    /\ UNCHANGED <<handleVars, geometryVars, batchVars>>

\* process_detector_observables
ProcessDetectorObservables ==
    /\ pc = "process"
    /\ station_observables' = process_detector_observables(detector_observables)
    /\ pc' = "gps"
    /\ UNCHANGED <<cluster, station, groundparticles, event_header, strategy, N,
                   i, core, shower_parameters, yielded, detector_observables,
                   matched, transporttimes, has_triggered, trigger_time,
                   gps_input,
                   gps_uncertainty>>
    /\ UNCHANGED <<handleVars, geometryVars, batchVars>>

\* simulate_gps on the station's observables, the last step of the
\* station's response
SimulateGps ==
    /\ pc = "gps"
    /\ \E uncertainty \in GpsUncertainties :
           /\ station_observables' =
                  simulate_gps(station_observables, shower_parameters,
                               station.gps_offset, uncertainty)
           /\ gps_uncertainty' =
                  IF Len(arrival_times(station_observables)) > 1
                  THEN <<uncertainty>> ELSE None
    /\ gps_input' = station_observables
    /\ trigger_time' =
           IF Len(arrival_times(station_observables)) > 1
           THEN <<gps_trigger_time(arrival_times(station_observables))>>
           ELSE None
    /\ pc' = "stamped"
    /\ UNCHANGED <<cluster, station, groundparticles, event_header, strategy, N,
                   i, core, shower_parameters, yielded, detector_observables,
                   matched, transporttimes, has_triggered>>
    /\ UNCHANGED <<handleVars, geometryVars, batchVars>>

(***************************************************************************)
(* The detection strategies on their own, on any dataset: the caller has   *)
(* set the pose of the cluster with set_xyalpha_coordinates, to the pose   *)
(* (-xp, -yp, -alpha) of a shower thrown at (x, y) with rotation alpha,    *)
(* and calls simulate_detector_response(detector, shower_parameters) for   *)
(* the detectors of the station.                                           *)
(***************************************************************************)
InitDetector ==
    /\ \E cls \in Strategies, placement \in StationPlacements,
          rows \in Datasets :
            Constructed(cls, NShowers, placement, PairDetectors,
                        CHOOSE g \in GpsOffsets : TRUE, rows,
                        CHOOSE a \in Azimuths : TRUE)
    /\ \E r \in Rs, phi \in Phis, alpha \in Alphas :
        LET x == mul(r, cos(phi))
            y == mul(r, sin(phi))
        IN  /\ shower_parameters = ShowerParameters(0, x, y, alpha)
            /\ cluster = set_xyalpha_coordinates(
                             neg(rotated_core(x, y, alpha)[1]),
                             neg(rotated_core(x, y, alpha)[2]), -alpha)
    /\ core = None
    /\ i = 0
    /\ yielded = 0
    /\ NoResponse
    /\ pc = "detectors"
    /\ Opened
    /\ NoCalls

NextDetectorResponse ==
    \/ SimulateDetectorResponse
    \/ SimulateDetectorResponseBoundary
    \/ SimulateDetectorResponseSignal

SpecDetector == InitDetector /\ [][NextDetectorResponse]_vars

(***************************************************************************)
(* The station's trigger and timestamp on their own: on any observables    *)
(* the detectors of a station of two or four detectors can report.  Both   *)
(* are functions of the observables alone, which are drawn here instead of *)
(* being computed from a dataset (matched and transporttimes stay empty);  *)
(* shower_parameters is the record the caller passes to simulate_gps.      *)
(***************************************************************************)
InitStation ==
    /\ \E detectors \in {PairDetectors, SingleStationDetectors},
          gps_offset \in GpsOffsets :
            Constructed("GroundParticlesSimulation", NShowers,
                        CHOOSE p \in StationPlacements : p.angle = 0,
                        detectors, gps_offset, <<>>,
                        CHOOSE a \in Azimuths : TRUE)
    /\ cluster = BaseCluster
    /\ core = None
    /\ shower_parameters = ShowerParameters(0, Zero, Zero, 0)
    /\ i = 0
    /\ yielded = 0
    /\ detector_observables \in
           [1..Len(station.detectors) -> DetectorObservables]
    /\ matched = <<>>
    /\ transporttimes = <<>>
    /\ has_triggered = None
    /\ station_observables = None
    /\ trigger_time = None
    /\ gps_input = None
    /\ gps_uncertainty = None
    /\ pc = "trigger"
    /\ Opened
    /\ NoCalls

NextStation ==
    \/ SimulateTrigger
    \/ ProcessDetectorObservables
    \/ SimulateGps

SpecStation == InitStation /\ [][NextStation]_vars

(***************************************************************************)
(* The life of one simulation object: __init__, which can fail before or   *)
(* after it has opened the dataset, the shower generator, which ends or    *)
(* raises, an explicit finish(), and __del__ when the object is destroyed. *)
(***************************************************************************)
\* GroundParticlesSimulation(...) is being called: nothing is opened yet
InitLife ==
    /\ \E n \in 0..NShowers :
           Constructed("GroundParticlesSimulation", n,
                       CHOOSE p \in StationPlacements : p.angle = 0,
                       PairDetectors, None, <<>>,
                       CHOOSE a \in Azimuths : TRUE)
    /\ cluster = BaseCluster
    /\ NoShower
    /\ NoResponse
    /\ corsikafile = "absent"
    /\ finish_calls = <<>>
    /\ NoCalls
    /\ pc = "new"

\* __init__ runs to its end: the dataset is opened and the station's
\* gps_offset drawn
Construct ==
    /\ pc = "new"
    /\ corsikafile' = "open"
    /\ \E rows \in RunDatasets : groundparticles' = rows
    /\ \E gps_offset \in GpsOffsets :
           station' = [station EXCEPT !.gps_offset = gps_offset]
    /\ pc' = "generate"
    /\ UNCHANGED <<cluster, event_header, strategy, N, i, core,
                   shower_parameters, yielded, detector_observables, matched,
                   transporttimes, has_triggered, station_observables,
                   trigger_time, gps_input, gps_uncertainty, finish_calls,
                   geometryVars, batchVars>>

\* __init__ raises, with what the lines before the raising one have done:
\* the base class's __init__ or open_file raises and nothing is bound;
\* get_node raises and the dataset is open; simulate_station_offset raises
\* and groundparticles is bound too; simulate_detector_offsets or the
\* storing of the cluster raises and the station has its gps_offset as well
ConstructFails ==
    /\ pc = "new"
    /\ \E raising \in {"open_file", "get_node", "simulate_station_offset",
                        "simulate_detector_offsets"} :
           /\ corsikafile' = IF raising = "open_file" THEN "absent"
                                                      ELSE "open"
           /\ IF raising \in {"open_file", "get_node"}
              THEN UNCHANGED groundparticles
              ELSE \E rows \in RunDatasets : groundparticles' = rows
           /\ IF raising = "simulate_detector_offsets"
              THEN \E gps_offset \in GpsOffsets :
                       station' = [station EXCEPT !.gps_offset = gps_offset]
              ELSE UNCHANGED station
    /\ pc' = "failed"
    /\ UNCHANGED <<cluster, event_header, strategy, N, i, core,
                   shower_parameters, yielded, detector_observables, matched,
                   transporttimes, has_triggered, station_observables,
                   trigger_time, gps_input, gps_uncertainty, finish_calls,
                   geometryVars, batchVars>>

\* GroundParticlesSimulation.finish: self.corsikafile.close(), on whatever
\* the attribute is at that moment
finish ==
    /\ finish_calls' = Append(finish_calls, corsikafile)
    /\ corsikafile' = IF corsikafile = "absent" THEN "absent" ELSE "closed"

\* the caller calls finish() on an object it holds, after the run or after
\* abandoning it
Finish ==
    /\ pc \notin {"new", "failed", "finished", "destroyed"}
    /\ finish
    /\ pc' = "finished"
    /\ UNCHANGED runVars

\* GroundParticlesSimulation.__del__: the object is destroyed
Del ==
    /\ pc \notin {"new", "destroyed"}
    /\ finish
    /\ pc' = "destroyed"
    /\ UNCHANGED runVars

NextLife ==
    \/ Construct
    \/ ConstructFails
    \/ GenerateShower
    \/ EndOfShowers
    \/ Finish
    \/ Del

SpecLife == InitLife /\ [][NextLife]_vars

(***************************************************************************)
(* clusters.py on its own: a cluster with one station is built, its pose   *)
(* is set, and the geometry of its detectors is asked for.                 *)
(***************************************************************************)
\* the number of geometry calls that are logged
MaxCalls == 3

\* the arguments of _add_station: position, angle and detector tuples, of
\* known orientations or with one whose orientation is neither 'UD' nor
\* 'LR'
GeometryStations ==
    {[position |-> <<One, Two>>, angle |-> -1, detectors |-> PairDetectors],
     [position |-> <<Zero, Zero>>, angle |-> 1,
      detectors |->
          << [x |-> Zero, y |-> Zero, orientation |-> "UD"],
             [x |-> Float(3, 0), y |-> Float(-1, 0), orientation |-> "XX"] >>]}

\* arguments of set_xyalpha_coordinates and of set_rphialpha_coordinates
Poses == {[x |-> One, y |-> Zero, alpha |-> 1]}
RPhiPoses == {[r |-> One, phi |-> 1, alpha |-> 1]}

\* the call op(args) that set the cluster's pose
Posed(op, args) == [op |-> op, args |-> args]

\* BaseCluster() has been built and has no station yet
InitGeometry ==
    /\ cluster = BaseCluster
    /\ station = None
    /\ groundparticles = <<>>
    /\ event_header = None
    /\ strategy = None
    /\ N = None
    /\ NoShower
    /\ NoResponse
    /\ corsikafile = "absent"
    /\ finish_calls = <<>>
    /\ calls = <<>>
    /\ posed = Posed("__init__", <<Zero, Zero, 0>>)
    /\ NoBatch
    /\ pc = "new"

\* what the geometry actions leave alone
UnchangedByGeometry ==
    UNCHANGED <<groundparticles, event_header, strategy, N, i, core,
                shower_parameters, yielded, detector_observables, matched,
                transporttimes, has_triggered, station_observables,
                trigger_time, gps_input, gps_uncertainty, handleVars,
                batchVars>>

\* BaseCluster._add_station: Station.__init__ stores position and angle and
\* builds a Detector, which stores x, y and orientation as given, from
\* every tuple
AddStation ==
    /\ pc = "new"
    /\ \E st \in GeometryStations :
           station' = [position |-> st.position, angle |-> st.angle,
                       detectors |-> st.detectors, gps_offset |-> None]
    /\ pc' = "built"
    /\ UNCHANGED <<cluster, calls, posed>>
    /\ UnchangedByGeometry

\* BaseCluster.set_xyalpha_coordinates
SetXyalphaCoordinates ==
    /\ pc = "built"
    /\ \E p \in Poses :
           /\ cluster' = set_xyalpha_coordinates(p.x, p.y, p.alpha)
           /\ posed' = Posed("set_xyalpha_coordinates", <<p.x, p.y, p.alpha>>)
    /\ UNCHANGED <<station, calls, pc>>
    /\ UnchangedByGeometry

\* BaseCluster.set_rphialpha_coordinates
SetRphialphaCoordinates ==
    /\ pc = "built"
    /\ \E p \in RPhiPoses :
           /\ cluster' = set_rphialpha_coordinates(p.r, p.phi, p.alpha)
           /\ posed' = Posed("set_rphialpha_coordinates", <<p.r, p.phi, p.alpha>>)
    /\ UNCHANGED <<station, calls, pc>>
    /\ UnchangedByGeometry

\* the log entry of a geometry call on detector d
Call(op, d, raised, value) ==
    [op |-> op, cluster |-> cluster, posed |-> posed, d |-> d,
     raised |-> raised, value |-> value]

\* Detector.get_xy_coordinates of one of the station's detectors
GetXyCoordinates ==
    /\ pc = "built"
    /\ Len(calls) < MaxCalls
    /\ \E d \in 1..Len(station.detectors) :
           calls' = Append(calls,
               Call("get_xy_coordinates", d, FALSE,
                    get_xy_coordinates(cluster, station, station.detectors[d])))
    /\ UNCHANGED <<cluster, station, posed, pc>>
    /\ UnchangedByGeometry

\* Detector.get_corners of one of the station's detectors
GetCorners ==
    /\ pc = "built"
    /\ Len(calls) < MaxCalls
    /\ \E d \in 1..Len(station.detectors) :
           calls' = Append(calls,
               IF get_corners_raises(station.detectors[d])
               THEN Call("get_corners", d, TRUE, <<>>)
               ELSE Call("get_corners", d, FALSE,
                         get_corners(cluster, station, station.detectors[d])))
    /\ UNCHANGED <<cluster, station, posed, pc>>
    /\ UnchangedByGeometry

NextGeometry ==
    \/ AddStation
    \/ SetXyalphaCoordinates
    \/ SetRphialphaCoordinates
    \/ GetXyCoordinates
    \/ GetCorners

SpecGeometry == InitGeometry /\ [][NextGeometry]_vars

(***************************************************************************)
(* corsika/qsub.py: batches of CORSIKA jobs.  The __main__ block makes a   *)
(* CorsikaBatch and calls batch_run, prepare_env and then submit_job, for  *)
(* one batch after the other; a submitted job runs on the cluster while    *)
(* the script goes on, and its last step moves its run directory from      *)
(* TEMPDIR to DATADIR.                                                     *)
(***************************************************************************)
\* the seeds random.randint(1, 900000000) is drawn from here: 1..MaxSeed
MaxSeed == 2

\* the batches of the __main__ block: for i in range(2)
Batches == 2

\* "{seed1}_{seed2}".format(seed1=seed1, seed2=seed2): the two numbers in
\* decimal with '_' between them, which is the pair of the two numbers
SeedName(seed1, seed2) == <<seed1, seed2>>

\* seed + '/'
Rundir(seed) == <<seed, "/">>

\* the names DATADIR and TEMPDIR can hold: those of seed pairs
Names == {SeedName(seed1, seed2) : seed1, seed2 \in 1..MaxSeed}

\* CorsikaBatch.__init__
CorsikaBatch == [seed1 |-> None, seed2 |-> None, rundir |-> None]

\* batch = CorsikaBatch(); batch.batch_run() of the first batch is about to
\* list the directories: DATADIR holds any finished runs, TEMPDIR at most
\* one run directory of an earlier script, whose job may still be running
InitBatch ==
    /\ cluster = BaseCluster
    /\ station = None
    /\ groundparticles = <<>>
    /\ event_header = None
    /\ strategy = None
    /\ N = None
    /\ NoShower
    /\ NoResponse
    /\ corsikafile = "absent"
    /\ finish_calls = <<>>
    /\ calls = <<>>
    /\ posed = None
    /\ datadir \in SUBSET Names
    /\ tempdir \in {{}} \cup {{name} : name \in Names}
    /\ jobs \in SUBSET tempdir
    /\ taken = None
    /\ batch = CorsikaBatch
    /\ batches = 1
    /\ exception = NoException
    /\ pc = "taken_seeds"

\* what the actions of the batch leave alone
UnchangedByBatch ==
    UNCHANGED <<cluster, station, groundparticles, event_header, strategy, N, i,
                core, shower_parameters, yielded, detector_observables,
                matched, transporttimes, has_triggered, station_observables,
                trigger_time, gps_input, gps_uncertainty, handleVars,
                geometryVars>>

\* CorsikaBatch.taken_seeds, line 146: taken = os.listdir(DATADIR); only
\* membership is asked of the list
ListDatadir ==
    /\ pc = "taken_seeds"
    /\ taken' = datadir
    /\ pc' = "taken_seeds_extend"
    /\ UNCHANGED <<datadir, tempdir, batch, jobs, batches, exception>>
    /\ UnchangedByBatch

\* CorsikaBatch.taken_seeds, lines 147-148, a second listing:
\* taken.extend(os.listdir(TEMPDIR)); prepare_env has its taken
ListTempdir ==
    /\ pc = "taken_seeds_extend"
    /\ taken' = taken \cup tempdir
    /\ pc' = "gen_random_seeds"
    /\ UNCHANGED <<datadir, tempdir, batch, jobs, batches, exception>>
    /\ UnchangedByBatch

\* CorsikaBatch.gen_random_seeds(taken) on the draws seed1 and seed2: the
\* object afterwards and the exception the call ends with.  The else branch
\* calls self.get_random_seeds, which CorsikaBatch does not have.
gen_random_seeds(self, tk, seed1, seed2) ==
    LET seed == SeedName(seed1, seed2)
    IN  IF seed \notin tk
        THEN [self |-> [seed1 |-> seed1, seed2 |-> seed2,
                        rundir |-> Rundir(seed)],
              exception |-> NoException]
        ELSE [self |-> self, exception |-> "AttributeError"]

\* prepare_env: self.gen_random_seeds(taken)
GenRandomSeeds ==
    /\ pc = "gen_random_seeds"
    /\ \E seed1, seed2 \in 1..MaxSeed :
           LET done == gen_random_seeds(batch, taken, seed1, seed2)
           IN  /\ batch' = done.self
               /\ exception' = done.exception
               /\ pc' = IF done.exception = NoException
                        THEN "make_rundir" ELSE "raised"
    /\ UNCHANGED <<datadir, tempdir, taken, jobs, batches>>
    /\ UnchangedByBatch

\* prepare_env: self.make_rundir(), os.mkdir(TEMPDIR + self.rundir), after
\* which goto_rundir, create_input, create_script and symlink_corsika
\* write the files of the run, run.sh among them, into the new directory
MakeRundir ==
    /\ pc = "make_rundir"
    /\ IF batch.rundir[1] \in tempdir
       THEN /\ exception' = "OSError"
            /\ pc' = "raised"
            /\ UNCHANGED tempdir
       ELSE /\ tempdir' = tempdir \cup {batch.rundir[1]}
            /\ pc' = "prepared"
            /\ UNCHANGED exception
    /\ UNCHANGED <<datadir, taken, batch, jobs, batches>>
    /\ UnchangedByBatch

\* batch_run: self.submit_job() after prepare_env.  ./run.sh, written from
\* SCRIPT_TEMPLATE, hands a job to qsub that runs CORSIKA in the run
\* directory, and returns
SubmitJob ==
    /\ pc = "prepared"
    /\ jobs' = jobs \cup {batch.rundir[1]}
    /\ pc' = "submitted"
    /\ UNCHANGED <<datadir, tempdir, taken, batch, batches, exception>>
    /\ UnchangedByBatch

\* the next round of the loop of the __main__ block: batch =
\* CorsikaBatch(); batch.batch_run(), up to its first listing
NextBatchRun ==
    /\ pc = "submitted"
    /\ batches < Batches
    /\ batch' = CorsikaBatch
    /\ batches' = batches + 1
    /\ taken' = None
    /\ pc' = "taken_seeds"
    /\ UNCHANGED <<datadir, tempdir, jobs, exception>>
    /\ UnchangedByBatch

\* a submitted job ends, at any moment of the script: after CORSIKA the
\* job's script runs 'cd ../..; mv {rundir} data/' (lines 76-77), which
\* takes the run directory out of TEMPDIR and puts it into DATADIR; mv
\* leaves it where it is if DATADIR already holds a run of that name
JobEnds ==
    /\ \E name \in jobs :
           /\ jobs' = jobs \ {name}
           /\ IF name \in datadir
              THEN UNCHANGED <<datadir, tempdir>>
              ELSE /\ datadir' = datadir \cup {name}
                   /\ tempdir' = tempdir \ {name}
    /\ UNCHANGED <<taken, batch, batches, exception, pc>>
    /\ UnchangedByBatch

NextBatch ==
    \/ ListDatadir
    \/ ListTempdir
    \/ GenRandomSeeds
    \/ MakeRundir
    \/ SubmitJob
    \/ NextBatchRun
    \/ JobEnds

SpecBatch == InitBatch /\ [][NextBatch]_vars
(***************************************************************************)
(* Properties.                                                             *)
(***************************************************************************)
\* the detectors whose response has been simulated for the current shower
Simulated == 1..Len(detector_observables)

\* the detectors that report n > 0
HitDetectors == {d \in Simulated : detector_observables[d].n > 0}

\* simulate_trigger has returned for the current shower
Triggered == pc \in {"process", "gps", "stamped"}

\* simulate_gps has returned for the current shower
Stamped == pc = "stamped"

\* the absolute centre of detector d
Centre(d) == get_xy_coordinates(cluster, station, station.detectors[d])

\* the fields simulate_gps adds
GpsFields == {"ext_timestamp", "timestamp", "nanoseconds"}

\* the particle ids of electrons and muons
Leptons == {2, 3, 5, 6}

\* C1: simulate_trigger returns True if and only if at least 2 of the
\* detectors report n > 0: the result is a function of the number of such
\* detectors alone (0 or 1: no trigger; 2, 3 or 4: trigger), whichever they
\* are.
C1_TriggerIffTwoHit ==
    Triggered =>
        /\ has_triggered = (Cardinality(HitDetectors) \in {2, 3, 4})
        /\ (~has_triggered) = (Cardinality(HitDetectors) \in {0, 1})

\* C1 witness: a station of four detectors has triggered on exactly two of
\* them, the second and the fourth
C1_Witness ==
    /\ pc = "process"
    /\ Len(detector_observables) = 4
    /\ HitDetectors = {2, 4}
    /\ has_triggered = TRUE

\* C2: when at least 2 detectors have n > 0, the trigger time simulate_gps
\* uses for the timestamp is the second-smallest arrival time among exactly
\* those detectors: one of them arrived no later, all others no earlier, and
\* the sentinel time of a detector with n = 0 is never taken.  With
\* t1 = 3.0, t2 = 5.0 and t3 = t4 = -999 (n1 = n2 = 1, n3 = n4 = 0) it is 5.0.
C2_TriggerTimeSecondSmallest ==
    (Stamped /\ Cardinality(HitDetectors) >= 2) =>
        /\ Len(trigger_time) = 1
        /\ \E d1, d2 \in HitDetectors :
            /\ d1 # d2
            /\ detector_observables[d2].t = trigger_time[1]
            /\ le(detector_observables[d1].t, trigger_time[1])
            /\ \A d \in HitDetectors \ {d1, d2} :
                   ge(detector_observables[d].t, trigger_time[1])
        /\ \E uncertainty \in GpsUncertainties :
               station_observables["ext_timestamp"] =
                   AddLong(shower_parameters.ext_timestamp,
                           int(add(add(trigger_time[1], station.gps_offset),
                                   uncertainty)))
        /\ (detector_observables =
                << [n |-> 1, t |-> Float(3, 0)], [n |-> 1, t |-> Float(5, 0)],
                   [n |-> 0, t |-> NoTime], [n |-> 0, t |-> NoTime] >>
             => trigger_time = <<Float(5, 0)>>)

\* C2 witness: the timestamp of the station that saw t1 = 3.0 and t2 = 5.0
\* and nothing in detectors 3 and 4
C2_Witness ==
    /\ Stamped
    /\ detector_observables =
           << [n |-> 1, t |-> Float(3, 0)], [n |-> 1, t |-> Float(5, 0)],
              [n |-> 0, t |-> NoTime], [n |-> 0, t |-> NoTime] >>
    /\ trigger_time = <<Float(5, 0)>>
    /\ "ext_timestamp" \in DOMAIN station_observables

\* C3: when fewer than 2 detectors have n > 0, simulate_gps returns the
\* station observables it was given: the n and t of every detector and
\* nothing else, without ext_timestamp, timestamp or nanoseconds.
C3_NoTimestampBelowTwo ==
    (Stamped /\ Cardinality(HitDetectors) < 2) =>
        /\ station_observables = gps_input
        /\ DOMAIN station_observables \cap GpsFields = {}
        /\ DOMAIN station_observables =
               {NKey[d] : d \in Simulated} \cup {TKey[d] : d \in Simulated}
        /\ \A d \in Simulated :
               /\ station_observables[NKey[d]] = detector_observables[d].n
               /\ station_observables[TKey[d]] = detector_observables[d].t
        /\ trigger_time = None

\* C3 witness: simulate_gps has returned for a station of four detectors of
\* which exactly one saw particles
C3_Witness ==
    /\ Stamped
    /\ Len(detector_observables) = 4
    /\ Cardinality(HitDetectors) = 1
    /\ DOMAIN station_observables \cap GpsFields = {}

\* C4: no strategy counts a row whose particle_id is 4 as detected: the rows
\* matched for a detector are electrons and muons (ids 2, 3, 5, 6) only.
C4_NeutrinoNeverDetected ==
    \A d \in 1..Len(matched) : \A k \in Range(matched[d]) :
        /\ groundparticles[k].particle_id # 4
        /\ groundparticles[k].particle_id \in Leptons

\* C5: a detector with an electron or muon exactly at its absolute centre
\* reports n > 0, under each of the three strategies.
C5_CentreDetected ==
    \A d \in Simulated :
        (\E k \in 1..Len(groundparticles) :
            /\ <<groundparticles[k].x, groundparticles[k].y>> = Centre(d)
            /\ groundparticles[k].particle_id \in Leptons)
        => detector_observables[d].n > 0

\* a row lies in the axis-aligned box of half-width b centred on detector d
InBox(row, d, b) ==
    /\ le(abs(sub(row.x, Centre(d)[1])), b)
    /\ le(abs(sub(row.y, Centre(d)[2])), b)

\* C6: the square approximation selects a row of a matching particle type if
\* and only if its x and its y both lie within 0.3535534 of the detector's
\* centre.
C6_SquareIsSymmetricBox ==
    strategy = "GroundParticlesSimulation" =>
        \A d \in 1..Len(matched) :
            Range(matched[d]) =
                {k \in 1..Len(groundparticles) :
                    /\ ParticleIdMatches(groundparticles[k])
                    /\ InBox(groundparticles[k], d, detector_boundary)}

\* C7: the momentum-weighted strategy selects for every detector exactly the
\* rows the rotated-polygon strategy selects.
C7_SignalSelectsAsBoundary ==
    strategy = "DetectorSignalSimulation" =>
        \A d \in 1..Len(matched) :
            matched[d] = BoundarySelected(cluster, station,
                                          station.detectors[d],
                                          groundparticles)

\* a row's line value is strictly between the intercepts of the family of
\* parallel lines get_line_boundary_eqs builds from three corners
BetweenLines(row, p0, p1, p2) ==
    LET eqs == get_line_boundary_eqs(p0, p1, p2)
    IN  /\ lt(eqs[1], LineValue(eqs[2], row))
        /\ lt(LineValue(eqs[2], row), eqs[3])

\* C8: the rotated-polygon strategy selects a row of a matching particle
\* type if and only if it lies in the box of half-width 0.6 around the
\* detector's centre and strictly between the two lines of both families,
\* built from the corners (c0, c1, c2) and (c1, c2, c3).
C8_PolygonIsBoxAndLines ==
    strategy = "DetectorBoundarySimulation" =>
        \A d \in 1..Len(matched) :
            LET c == get_corners(cluster, station, station.detectors[d])
            IN  Range(matched[d]) =
                    {k \in 1..Len(groundparticles) :
                        /\ ParticleIdMatches(groundparticles[k])
                        /\ InBox(groundparticles[k], d,
                                 detector_boundary_Boundary)
                        /\ BetweenLines(groundparticles[k], c[1], c[2], c[3])
                        /\ BetweenLines(groundparticles[k], c[2], c[3], c[4])}

\* the corrected arrival time of the k-th row matched for detector d
Corrected(d, k) ==
    add(groundparticles[matched[d][k]].t, transporttimes[d][k])

\* C9: a detector for which no row matched reports n = 0 and t = -999;
\* otherwise its t is the minimum over the matched rows of the raw arrival
\* time plus that row's transport-time delay and, for the square and the
\* rotated-polygon strategy, its n is the number of matched rows.
C9_PostSelection ==
    \A d \in Simulated :
        IF matched[d] = <<>>
        THEN detector_observables[d] = [n |-> 0, t |-> Float(-999, 0)]
        ELSE /\ \E k \in 1..Len(matched[d]) :
                    detector_observables[d].t = Corrected(d, k)
             /\ \A k \in 1..Len(matched[d]) :
                    le(detector_observables[d].t, Corrected(d, k))
             /\ strategy # "DetectorSignalSimulation" =>
                    detector_observables[d].n = Cardinality(Range(matched[d]))

\* C9 witness: two rows matched for a detector, and the one that arrived
\* later got the shorter delay and is the first to be seen
C9_Witness ==
    \E d \in Simulated :
        /\ Len(matched[d]) = 2
        /\ lt(groundparticles[matched[d][1]].t,
              groundparticles[matched[d][2]].t)
        /\ lt(Corrected(d, 2), Corrected(d, 1))
        /\ detector_observables[d] = [n |-> 2, t |-> Corrected(d, 2)]

\* the vector v turned by k quarter turns, counterclockwise
Rot(k, v) ==
    CASE k % 4 = 0 -> v
      [] k % 4 = 1 -> <<-v[2], v[1]>>
      [] k % 4 = 2 -> <<-v[1], -v[2]>>
      [] k % 4 = 3 -> <<v[2], -v[1]>>

\* the sum of two vectors
Plus(v, w) == <<v[1] + w[1], v[2] + w[2]>>

\* the opposite of a vector
Opposite(v) == <<-v[1], -v[2]>>

\* a pair of floats to seven decimals, in whole numbers of 1e-7
GridOf(v) == <<Grid(v[1]), Grid(v[2])>>

\* the generator has drawn a shower and its next() has ended
Drawn == core # None

\* C10: every next() on generate_shower_parameters that has drawn a shower
\* hands its record out with the cluster's pose set to (-x', -y', -alpha)
\* for that shower's own core offset (x, y) rotated by -alpha: it ends
\* without an exception and, turned back by alpha, the cluster's position
\* is, to seven decimals, the opposite of the core position of the record.
C10_PoseOfOwnShower ==
    Drawn =>
        /\ exception = NoException
        /\ yielded = i + 1
        /\ shower_parameters.ext_timestamp = [s |-> Giga + i, ns |-> 0]
        /\ shower_parameters.core_pos = <<core.x, core.y>>
        /\ cluster.alpha = -core.alpha
        /\ Rot(core.alpha, GridOf(<<cluster.x, cluster.y>>)) =
               Opposite(GridOf(shower_parameters.core_pos))
        /\ (core.alpha = 1 /\ GridOf(<<core.x, core.y>>) = <<0, Metre>>)
               => /\ GridOf(<<cluster.x, cluster.y>>) = <<-Metre, 0>>
                  /\ cluster.alpha = -1

\* C11: the azimuth of every shower record lies in (-pi, pi], that is in
\* -1..2 quarter turns, and differs from alpha + event_header.azimuth by
\* no more than one turn, for every drawn alpha and source azimuth, alpha =
\* pi with azimuth = pi and alpha = -pi with azimuth = -pi included.
C11_AzimuthInHalfOpenInterval ==
    Drawn =>
        /\ shower_parameters.azimuth \in -1..2
        /\ shower_parameters.azimuth - (core.alpha + event_header.azimuth)
               \in {-4, 0, 4}
        /\ (core.alpha = 2 /\ event_header.azimuth = 2)
               => shower_parameters.azimuth = 0
        /\ (core.alpha = -2 /\ event_header.azimuth = -2)
               => shower_parameters.azimuth = 0

\* the record of a shower drawn with alpha = pi on a dataset of azimuth pi
C11_Witness ==
    /\ Drawn
    /\ core.alpha = 2
    /\ event_header.azimuth = 2
    /\ shower_parameters.azimuth = 0

\* ext_timestamp a is later than ext_timestamp b
Later(a, b) == a.s > b.s \/ (a.s = b.s /\ a.ns > b.ns)

\* C12: one run of generate_shower_parameters yields exactly N records, one
\* at a time: it ends, by exhaustion or otherwise, only after N records;
\* the record of shower index i carries ext_timestamp = (10^9 + i) * 10^9,
\* so every record is later than the one before it and no two records of
\* a run share a value.
C12_OneRecordPerIndex ==
    [][/\ yielded' \in {yielded, yielded + 1}
       /\ yielded' <= N
       /\ pc' \in {"done", "raised"} => yielded' = N
       /\ yielded' = yielded + 1 =>
             /\ i' = yielded
             /\ shower_parameters'.ext_timestamp = [s |-> Giga + i', ns |-> 0]
             /\ yielded > 0 =>
                   Later(shower_parameters'.ext_timestamp,
                         shower_parameters.ext_timestamp)]_vars

\* the float x rounded to the nearest integer, halves away from zero
round(x) ==
    IF x.s = 0 THEN 0
    ELSE IF x.e >= 0 THEN x.s * IntOf(ShiftLeft(x.m, x.e))
    ELSE x.s * ((IntOf(ShiftRight(x.m, -x.e - 1).q) + 1) \div 2)

\* the sum simulate_gps adds to the shower's ext_timestamp
GpsSum ==
    add(add(trigger_time[1], station.gps_offset), gps_uncertainty[1])

\* C13: when simulate_gps produces a timestamp, the station's ext_timestamp
\* is the shower's ext_timestamp plus trigger_time + station.gps_offset +
\* the GPS jitter rounded to the nearest integer, for sums of either sign.
C13_StampIsRoundedSum ==
    (Stamped /\ "ext_timestamp" \in DOMAIN station_observables) =>
        station_observables["ext_timestamp"] =
            AddLong(shower_parameters.ext_timestamp, round(GpsSum))

\* C14: over the life of one simulation object the dataset handle is closed
\* exactly once, whether the run completed, was abandoned, finish() was
\* called before the object was destroyed or construction failed before the
\* handle was opened: finish() never runs on a handle that does not exist
\* or is already closed, and a destroyed object has had its handle, if it
\* ever had one, closed by exactly one call.
C14_ClosedExactlyOnce ==
    /\ \A k \in 1..Len(finish_calls) : finish_calls[k] = "open"
    /\ corsikafile = "closed" => Len(finish_calls) = 1
    /\ pc = "destroyed" => corsikafile \in {"absent", "closed"}

\* the orientations Detector knows
Orientations == {"UD", "LR"}

\* C15: a detector orientation other than 'UD' and 'LR' is rejected when the
\* station is built: no built station has a detector of such an
\* orientation, and no geometry call (get_xy_coordinates, get_corners) on
\* such a detector returns a value.
C15_UnknownOrientationRejected ==
    /\ pc = "built" =>
           \A d \in 1..Len(station.detectors) :
               station.detectors[d].orientation \in Orientations
    /\ \A k \in 1..Len(calls) :
           station.detectors[calls[k].d].orientation \notin Orientations
               => calls[k].raised

\* the station's absolute position when the cluster is at pose c, in whole
\* numbers of 1e-7 m
StationPosition(c) ==
    Plus(GridOf(<<c.x, c.y>>), Rot(c.alpha, GridOf(station.position)))

\* the absolute centre of detector d when the cluster is at pose c, in
\* whole numbers of 1e-7 m
DetectorCentre(c, d) ==
    Plus(StationPosition(c),
         Rot(c.alpha + station.angle,
             GridOf(<<station.detectors[d].x, station.detectors[d].y>>)))

\* C16: for every cluster pose (X, Y, A), station offset (sx, sy) with own
\* angle a and detector offset (dx, dy), the station's absolute pose is
\* (X, Y) + Rot(A)(sx, sy) with angle A + a, and get_xy_coordinates
\* returns the station's absolute position + Rot(A + a)(dx, dy), to seven
\* decimals: every level's rotation and translation is applied exactly once.
C16_CoordinateComposition ==
    pc = "built" =>
        /\ GridOf(Station_get_xyalpha_coordinates(cluster, station)) =
               StationPosition(cluster)
        /\ Station_get_xyalpha_coordinates(cluster, station)[3] =
               cluster.alpha + station.angle
        /\ \A k \in 1..Len(calls) :
               calls[k].op = "get_xy_coordinates" =>
                   GridOf(calls[k].value) =
                       DetectorCentre(calls[k].cluster, calls[k].d)

\* get_xy_coordinates has returned for a detector off the centre of a
\* turned station that is off the centre of a turned and moved cluster
C16_Witness ==
    /\ pc = "built"
    /\ station.position = <<One, Two>>
    /\ station.angle = -1
    /\ \E k \in 1..Len(calls) :
           /\ calls[k].op = "get_xy_coordinates"
           /\ GridOf(<<calls[k].cluster.x, calls[k].cluster.y>>) = <<0, Metre>>
           /\ calls[k].cluster.alpha = 1
           /\ calls[k].d = 2
           /\ station.detectors[2] = [x |-> One, y |-> Zero, orientation |-> "LR"]
           /\ GridOf(calls[k].value) = <<-Metre, 2 * Metre>>

\* the logged calls of get_xy_coordinates
XyCalls(log) == {k \in 1..Len(log) : log[k].op = "get_xy_coordinates"}

\* C17: setting the cluster's pose changes the cluster's (x, y, alpha) only,
\* never the station's position, its angle or the detectors' offsets, and
\* get_xy_coordinates of a detector returns the same value whenever the pose
\* has been set by the same call: after the pose p has been replaced by
\* another pose q and set back to p, every detector is where it was.
C17_PoseRoundTrip ==
    [][/\ posed' # posed => (station' = station /\ calls' = calls)
       /\ \A k1, k2 \in XyCalls(calls') :
              (calls'[k1].posed = calls'[k2].posed
                    /\ calls'[k1].d = calls'[k2].d)
                 => calls'[k1].value = calls'[k2].value]_vars

\* get_xy_coordinates of detector 2 has returned at a pose p, at another
\* pose q, where the detector is elsewhere, and at pose p again
C17_Witness ==
    /\ Len(calls) = 3
    /\ XyCalls(calls) = {1, 2, 3}
    /\ \A k \in 1..3 : calls[k].d = 2
    /\ calls[1].posed = calls[3].posed
    /\ calls[1].posed.op = "set_xyalpha_coordinates"
    /\ calls[2].posed # calls[1].posed
    /\ calls[2].value # calls[1].value
    /\ calls[3].value = calls[1].value

\* C18: for a detector whose absolute rotation is 0 the rotated-polygon
\* strategy and the square-approximation strategy select exactly the same
\* rows: the two tests agree on every sample position around the detector.
C18_SquareAgreesWithPolygon ==
    Station_get_xyalpha_coordinates(cluster, station)[3] = 0 =>
        \A d \in 1..Len(station.detectors) :
            SquareSelected(cluster, station, station.detectors[d],
                           groundparticles)
            = BoundarySelected(cluster, station, station.detectors[d],
                               groundparticles)

\* C19: gen_random_seeds(taken) gets an unused combination of two seeds:
\* for every list of taken names, also when the pair drawn first is in
\* taken, the call ends without error with seed1, seed2 and rundir set to a
\* pair whose name is not in taken, and prepare_env creates no run
\* directory for a seed pair that was already used: the one directory it
\* adds to TEMPDIR has a name that was not listed and that no finished run
\* in DATADIR bears.
C19_UnusedSeedsFound ==
    /\ pc \in {"make_rundir", "prepared", "raised"} =>
           /\ exception = NoException
           /\ batch.seed1 \in 1..MaxSeed
           /\ batch.seed2 \in 1..MaxSeed
           /\ SeedName(batch.seed1, batch.seed2) \notin taken
           /\ batch.rundir = Rundir(SeedName(batch.seed1, batch.seed2))
    /\ pc = "prepared" =>
           /\ tempdir \ taken = {batch.rundir[1]}
           /\ batch.rundir[1] \notin datadir

====
